---- MODULE Spec2Model ----
(***************************************************************************)
(* Model of one invocation after another of main() in update.py: the load  *)
(* of history.json, the fetch of the aircraft and market feeds, the        *)
(* new/returning tagging, the market deltas, the save of history.json and  *)
(* the report, with the clock and the history file as the state that       *)
(* outlives an invocation; and of the lookups the fetch applies to every   *)
(* aircraft: describe_location, identify_airframe and _resolve_icao_type.  *)
(***************************************************************************)
EXTENDS Integers, Sequences, FiniteSets, TLC

VARIABLES
    now,                \* the UTC clock, in hours
    pc,                 \* where main() stands
    history_file,       \* history.json on disk
    hist_status,        \* which branch of the load's try/except ran
    hist_timestamp,     \* the "timestamp" of the record the load parsed
    prev_callsigns,     \* main's prev_callsigns
    prev_markets,       \* main's prev_markets: question -> stored entry
    opensky,            \* result of fetch_opensky()
    polymarket,         \* result of fetch_polymarket(), annotated in place
    current_callsigns,  \* main's current_callsigns
    new_count,          \* main's new_count
    market_alerts,      \* main's market_alerts
    last_saved,         \* what the latest completed save was given to persist
    prior_saved,        \* last_saved as it stood when this invocation began
    lat,                \* describe_location's lat, in thousandths of a degree
    lon,                \* describe_location's lon, in thousandths of a degree
    location_desc,      \* what describe_location returned
    callsign,           \* identify_airframe's callsign
    type_code,          \* _resolve_icao_type's type_code
    airframe,           \* what identify_airframe or _resolve_icao_type returned
    key,                \* the table key at which its loop or its test returned
    consulted           \* the lookups the enrichment of an aircraft has called

\* The arguments and the result of a lookup.
lookup == <<lat, lon, location_desc, callsign, type_code, airframe, key,
           consulted>>

\* What main holds, its position aside.
main_state == <<now, history_file, hist_status, hist_timestamp, prev_callsigns,
                prev_markets, opensky, polymarket, current_callsigns, new_count,
                market_alerts, last_saved, prior_saved>>

vars == <<now, pc, history_file, hist_status, hist_timestamp, prev_callsigns,
          prev_markets, opensky, polymarket, current_callsigns, new_count,
          market_alerts, last_saved, prior_saved, lookup>>

----------------------------------------------------------------------------
(* Bounds of the model and the input alphabets.                            *)

MaxAircraft == 2
MaxTime == 50

\* Hours that may pass between two invocations.
Gaps == {25}

Callsigns == {"", "RCH4521", "ETHYL21"}
Questions == {"Q1", "Q2"}

\* (probability, volume) quotes a market may carry.
Quotes == {<<40, 0>>, <<45, 5000>>, <<55, 20000>>}

\* The positions describe_location is applied to: two grids of half a
\* degree, rows of latitude by columns of longitude, one over the Gulf and
\* one over the Levant, and single positions.
MaxRow == 16
MaxCol == 18

Grid(lat0, lon0) ==
    {<<lat0 + 500 * i, lon0 + 500 * j>> : i \in 0..MaxRow, j \in 0..MaxCol}

\* Single positions: at the thresholds of 15, 40 and 100 nm to the nearest
\* reference point and of 5 nm to the nearest country box, at equal distance
\* from two reference points or two country boxes (to the hundredth of a
\* nautical mile), and next to reference points that lie in no box.
Landmarks ==
    {<<26950, 56190>>, <<26940, 56240>>,    \* 14.99 and 15.00 nm from Bandar Abbas
     <<25300, 56000>>, <<27120, 55530>>,    \* 39.99 and 40.00 nm, over water
     <<34630, 32180>>, <<33960, 33250>>,    \* 39.99 nm from RAF Akrotiri
     <<24250, 49750>>, <<24180, 49800>>,    \* 99.99 and 100.00 nm, over Saudi Arabia
     <<35540, 32410>>, <<35580, 32470>>,    \* 5.00 and 5.01 nm off Cyprus
     <<34000, 30050>>,                      \* 2.5 nm off Greece
     <<34000, 31250>>,                      \* as far from Cyprus as from Greece
     <<24390, 54510>>, <<24100, 55180>>,    \* as far from Al Dhafra as from Abu Dhabi
     <<24060, 55270>>,                      \* the same, beyond 40 nm
     <<33540, 34300>>,                      \* as far from RAF Akrotiri as from Tel Aviv
     <<38770, -27090>>, <<-7310, 72410>>}   \* Lajes Field, Diego Garcia

Positions == Grid(24000, 49000) \cup Grid(29000, 28000) \cup Landmarks

\* The callsigns identify_airframe and the type codes _resolve_icao_type are
\* applied to.
CallsignInputs ==
    {"", "RCH4521", "rch4521", "REACH01", "HERKY11", "HERK", "ETHYL21", "SAM",
     "SA", "XRCH1", "UNKNOWN", "Doom11"}

TypeCodeInputs ==
    {"", "C17", "c17", "C-17", "C17A", "C1", "K35R", "KC135", "-", "ZZZZ",
     "B52H", "E3", "F18S", "E35L", "XC17", "f-18"}

----------------------------------------------------------------------------
(* Optional values: Python's None against a present value.                 *)

None == <<>>
Some(x) == <<x>>
Val(o) == o[1]

\* A JSON value read where a number is expected.
JsonInt(n) == [kind |-> "int", v |-> n]
JsonAbsent == [kind |-> "absent", v |-> 0]
JsonNotNumber == [kind |-> "str", v |-> 0]

SeqsUpTo(S, n) == UNION {[1..k -> S] : k \in 0..n}
Abs(x) == IF x < 0 THEN -x ELSE x

----------------------------------------------------------------------------
(* history.json.  The file holds what has been written into it since it    *)
(* was last opened for writing: a sequence of JSON documents, the last of  *)
(* which may be cut short.                                                 *)

NoFile == [exists |-> FALSE, docs |-> <<>>]

\* One complete JSON document as json.dump writes it in step 1d.
Doc(ts, cs, mk) ==
    [complete |-> TRUE, shape |-> "object", timestamp |-> ts,
     callsigns |-> cs, markets |-> mk]

\* A document cut short: a prefix of the text, which no parser accepts.
PartialDoc ==
    [complete |-> FALSE, shape |-> "object", timestamp |-> 0,
     callsigns |-> {}, markets |-> <<>>]

\* Mode "a" in place of "w": what the file holds is kept.
OpenForAppend(f) == [exists |-> TRUE, docs |-> f.docs]

\* open(history_path, "w"): creates the file or truncates it to nothing.
OpenForWrite(f) == [exists |-> TRUE, docs |-> <<>>]

\* json.dump(..., f): the document lands at the file position.
Dump(f, doc) == [f EXCEPT !.docs = Append(@, doc)]

\* json.load(f) returns a value iff the text is exactly one complete document.
JsonLoads(f) == Len(f.docs) = 1 /\ f.docs[1].complete

\* history.get(...) works on a JSON object only.
LoadsAsObject(f) == JsonLoads(f) /\ f.docs[1].shape = "object"

\* for pm in history.get("markets", []): prev_markets[pm.get("question", "")] = pm
\* (a later entry for the same question replaces an earlier one).
LastIndexOf(mk, q) ==
    CHOOSE i \in DOMAIN mk :
        /\ mk[i].question = q
        /\ \A j \in DOMAIN mk : mk[j].question = q => j <= i

MarketsByQuestion(mk) ==
    [q \in {mk[i].question : i \in DOMAIN mk} |-> mk[LastIndexOf(mk, q)]]

NoMarkets == MarketsByQuestion(<<>>)

\* What an invocation holds to persist: the observation of its own cycle.
\* A traced save also records the status of the cycle's aircraft feed and
\* the callsigns of the snapshot that the save replaced.
NoSnapshot ==
    [has |-> FALSE, timestamp |-> 0, callsigns |-> {}, markets |-> <<>>,
     status |-> "unfetched", before |-> {}]

----------------------------------------------------------------------------
(* The feeds.                                                              *)

Aircraft(cs) == [callsign |-> cs, status |-> "untagged"]

\* _fetch_opensky_fallback keeps only callsigns that start with a MIL_PREFIXES
\* entry; of the model's callsigns these are the RCH and ETHYL ones.
MilPrefixed == {"RCH4521", "ETHYL21"}

OpenskyPrimary(C, n) ==
    {[status |-> "ok", mil_aircraft |-> [i \in DOMAIN l |-> Aircraft(l[i])]] :
        l \in SeqsUpTo(C, n)}

OpenskyFallback(C, n) ==
    {[status |-> "ok (OpenSky fallback)",
      mil_aircraft |-> [i \in DOMAIN l |-> Aircraft(l[i])]] :
        l \in SeqsUpTo(C \cap MilPrefixed, n)}

OpenskyError == [status |-> "error", mil_aircraft |-> <<>>]

OpenskyResults(C, n) ==
    OpenskyPrimary(C, n) \cup OpenskyFallback(C, n) \cup {OpenskyError}

NoOpensky == [status |-> "unfetched", mil_aircraft |-> <<>>]

Market(q, quote) ==
    [question |-> q, probability |-> quote[1], volume |-> quote[2],
     prob_delta |-> None, vol_ratio |-> None]

\* fetch_polymarket: no two markets share a question, the list is sorted by
\* volume, largest first.
IsMarketList(l) ==
    /\ \A i, j \in DOMAIN l : i # j => l[i].question # l[j].question
    /\ \A i, j \in DOMAIN l : i < j => l[i].volume >= l[j].volume

PolymarketResults(Q, V) ==
    {[status |-> "ok", markets |-> l] :
        l \in {m \in SeqsUpTo({Market(q, v) : q \in Q, v \in V}, Cardinality(Q)) :
                   IsMarketList(m)}}
    \cup {[status |-> "error", markets |-> <<>>]}

NoPolymarket == [status |-> "unfetched", markets |-> <<>>]

----------------------------------------------------------------------------
(* Step 1b: new/returning tagging.                                         *)

\* An aircraft without a callsign never taken for a returning one.
TagStatusNamedOnly(cs, prev) == IF cs # "" /\ cs \in prev THEN "returning" ELSE "new"

\* The test inverted.
TagStatusInverted(cs, prev) == IF cs \in prev THEN "new" ELSE "returning"

\* if cs in prev_callsigns: "returning" else: "new"
TagStatus(cs, prev) == IF cs \in prev THEN "returning" ELSE "new"

TagAircraft(list, prev) ==
    [i \in DOMAIN list |-> [list[i] EXCEPT !.status = TagStatus(list[i].callsign, prev)]]

\* current_callsigns.add(cs) for every aircraft of the list
CallsignsOf(list) == {list[i].callsign : i \in DOMAIN list}

\* new_count += 1 for every aircraft tagged "new"
CountNew(list) == Cardinality({i \in DOMAIN list : list[i].status = "new"})

----------------------------------------------------------------------------
(* Step 1c: market deltas.                                                 *)

PROB_SPIKE_THRESHOLD == 5
VOLUME_SPIKE_MULTIPLE == 3
VolumeAlertFloor == 10000

\* The operands exchanged.
ProbDeltaReversed(m, prev) ==
    (IF prev.probability.kind = "absent" THEN m.probability
                                         ELSE prev.probability.v)
        - m.probability

\* m["probability"] - prev.get("probability", m["probability"])
ProbDelta(m, prev) ==
    m.probability -
        (IF prev.probability.kind = "absent" THEN m.probability
                                             ELSE prev.probability.v)

\* int - str raises TypeError, which nothing in main catches.
ProbDeltaRaises(prev) == prev.probability.kind = "str"

\* round(x, 1) of the quotient a / b (b > 0), in tenths.  A quotient that lies
\* exactly half-way (0.25, 0.75, ...) is a binary fraction, which Python rounds
\* to the even tenth; the quotes of the model produce no other half-way case.
RoundTenths(a, b) ==
    LET n == 10 * a
        q == n \div b
        r == n % b
    IN  IF 2 * r < b THEN q
        ELSE IF 2 * r > b THEN q + 1
        ELSE IF q % 2 = 0 THEN q ELSE q + 1

\* vol_ratio = curr_vol / prev_vol if prev_vol > 0 else 0;  round(vol_ratio, 1)
VolRatioTenths(curr_vol, prev_vol) ==
    IF prev_vol > 0 THEN RoundTenths(curr_vol, prev_vol) ELSE 0

\* vol_ratio >= VOLUME_SPIKE_MULTIPLE and curr_vol > 10000 (on the unrounded ratio)
IsVolumeSpike(curr_vol, prev_vol) ==
    /\ prev_vol > 0
    /\ curr_vol >= VOLUME_SPIKE_MULTIPLE * prev_vol
    /\ curr_vol > VolumeAlertFloor

\* ">" in place of ">=".
IsProbSpikeStrict(delta) == Abs(delta) > PROB_SPIKE_THRESHOLD

\* abs(prob_delta) >= PROB_SPIKE_THRESHOLD
IsProbSpike(delta) == Abs(delta) >= PROB_SPIKE_THRESHOLD

\* A market without a stored entry given a delta and a ratio of zero.
AnnotateMarketDefaulted(m, prevs) ==
    IF m.question \in DOMAIN prevs
    THEN LET prev == prevs[m.question]
         IN  [m EXCEPT !.prob_delta = Some(ProbDelta(m, prev)),
                       !.vol_ratio = Some(VolRatioTenths(m.volume, prev.volume))]
    ELSE [m EXCEPT !.prob_delta = Some(0), !.vol_ratio = Some(0)]

\* The body of the loop for one market: the market with its two annotations.
AnnotateMarket(m, prevs) ==
    IF m.question \in DOMAIN prevs
    THEN LET prev == prevs[m.question]
         IN  [m EXCEPT !.prob_delta = Some(ProbDelta(m, prev)),
                       !.vol_ratio = Some(VolRatioTenths(m.volume, prev.volume))]
    ELSE [m EXCEPT !.prob_delta = None, !.vol_ratio = None]

\* The alerts the loop body appends for one market, in order.
AlertsFor(m, prevs) ==
    IF m.question \in DOMAIN prevs
    THEN LET prev == prevs[m.question]
             d == ProbDelta(m, prev)
         IN  (IF IsProbSpike(d)
              THEN <<[question |-> m.question, kind |-> "probability",
                      direction |-> IF d > 0 THEN "UP" ELSE "DOWN"]>>
              ELSE <<>>)
             \o
             (IF IsVolumeSpike(m.volume, prev.volume)
              THEN <<[question |-> m.question, kind |-> "volume",
                      direction |-> "UP"]>>
              ELSE <<>>)
    ELSE <<>>

\* The markets on which the loop body raises.
RaisingAt(list, prevs) ==
    {i \in DOMAIN list :
        /\ list[i].question \in DOMAIN prevs
        /\ ProbDeltaRaises(prevs[list[i].question])}

\* The loop runs over the first k markets.
AnnotateFirst(list, prevs, k) ==
    [i \in DOMAIN list |-> IF i <= k THEN AnnotateMarket(list[i], prevs) ELSE list[i]]

RECURSIVE AlertsOfFirst(_, _, _)
AlertsOfFirst(list, prevs, k) ==
    IF k = 0 THEN <<>>
    ELSE AlertsOfFirst(list, prevs, k - 1) \o AlertsFor(list[k], prevs)

----------------------------------------------------------------------------
(* Step 1d: the snapshot.                                                  *)

\* market_snapshot: question, probability and volume of every market
MarketSnapshot(list) ==
    [i \in DOMAIN list |->
        [question |-> list[i].question,
         probability |-> JsonInt(list[i].probability),
         volume |-> list[i].volume]]

\* The document json.dump is given.
SnapshotDoc(ts, callsigns, list) == Doc(ts, callsigns, MarketSnapshot(list))

----------------------------------------------------------------------------
(* Step 0: the load of history.json.                                       *)

\* Which branch of the try/except runs.
LoadStatus(f) ==
    IF ~f.exists THEN "missing"             \* FileNotFoundError
    ELSE IF ~JsonLoads(f) THEN "error"      \* json.JSONDecodeError
    ELSE IF ~LoadsAsObject(f) THEN "error"  \* AttributeError on history.get
    ELSE "ok"

\* The key misspelt: history.get finds nothing and returns its default.
LoadedCallsignsWrongKey(f) == {}

\* prev_callsigns = set(history.get("callsigns", []))
LoadedCallsigns(f) ==
    IF LoadStatus(f) = "ok" THEN f.docs[1].callsigns ELSE {}

\* The markets read under a key the save never writes.
LoadedMarketsWrongKey(f) == NoMarkets

\* prev_markets, filled from history.get("markets", [])
LoadedMarkets(f) ==
    IF LoadStatus(f) = "ok" THEN MarketsByQuestion(f.docs[1].markets) ELSE NoMarkets

LoadedTimestamp(f) ==
    IF LoadStatus(f) = "ok" THEN Some(f.docs[1].timestamp) ELSE None

\* The previous set kept when the cycle observed no aircraft.
SavedCallsignsKeptOnEmpty(current, prev) == IF current = {} THEN prev ELSE current

\* The previous set carried over into the snapshot.
SavedCallsignsCarried(current, prev) == current \cup prev

\* "callsigns": list(current_callsigns)
SavedCallsigns(current, prev) == current

----------------------------------------------------------------------------
(* The location resolver.  Coordinates are in thousandths of a degree,     *)
(* distances in hundredths of a nautical mile.                             *)

\* _REFERENCE_POINTS: (lat, lon, name)
REFERENCE_POINTS == <<
    <<25117, 51315, "Al Udeid AB, Qatar">>,
    <<24248, 54547, "Al Dhafra AB, UAE">>,
    <<29346, 47521, "Ali Al Salem AB, Kuwait">>,
    <<32356, 36259, "Muwaffaq Salti AB, Jordan">>,
    <<24062, 47580, "Prince Sultan AB, Saudi Arabia">>,
    <<11547, 43155, "Camp Lemonnier, Djibouti">>,
    <<37002, 35426, "Incirlik AB, Turkey">>,
    <<34590, 32988, "RAF Akrotiri, Cyprus">>,
    <<26236, 50577, "NSA Bahrain">>,
    <<-7313, 72411, "Diego Garcia">>,
    <<49437, 7600, "Ramstein AB, Germany">>,
    <<46032, 11877, "Aviano AB, Italy">>,
    <<37176, -5615, "Morón AB, Spain">>,
    <<36647, -6349, "NAS Rota, Spain">>,
    <<37037, 22421, "NAS Souda Bay, Crete">>,
    <<37401, 14925, "NAS Sigonella, Sicily">>,
    <<52360, 486, "RAF Lakenheath, UK">>,
    <<52364, 773, "RAF Mildenhall, UK">>,
    <<55509, -4587, "Prestwick, Scotland">>,
    <<38765, -27091, "Lajes Field, Azores">>,
    <<35857, 14513, "RAF Luqa, Malta">>,
    <<40900, 8291, "Decimomannu AB, Sardinia">>,
    <<35689, 51389, "Tehran">>,
    <<32621, 51678, "Isfahan">>,
    <<32064, 52068, "Natanz">>,
    <<34861, 50988, "Fordow">>,
    <<27188, 56275, "Bandar Abbas">>,
    <<33313, 44366, "Baghdad">>,
    <<29376, 47978, "Kuwait City">>,
    <<25286, 51533, "Doha">>,
    <<24454, 54654, "Abu Dhabi">>,
    <<25204, 55271, "Dubai">>,
    <<23486, 58382, "Muscat">>,
    <<21485, 39193, "Jeddah">>,
    <<24713, 46675, "Riyadh">>,
    <<38963, 35243, "Ankara">>,
    <<31768, 35214, "Jerusalem">>,
    <<32084, 34782, "Tel Aviv">>,
    <<33513, 36292, "Damascus">>,
    <<36191, 44009, "Kirkuk">>,
    <<36335, 43119, "Mosul">>,
    <<30508, 47783, "Basra">>,
    <<15370, 44206, "Sana'a">>,
    <<12778, 45019, "Aden">> >>

\* _COUNTRY_BOXES: (lat_min, lat_max, lon_min, lon_max, name)
COUNTRY_BOXES == <<
    <<25000, 40000, 44000, 63000, "Iran">>,
    <<29000, 37500, 39000, 48500, "Iraq">>,
    <<16000, 32000, 35000, 56000, "Saudi Arabia">>,
    <<22500, 26500, 51000, 56500, "UAE">>,
    <<16000, 26500, 52000, 60000, "Oman">>,
    <<28500, 30500, 46500, 48500, "Kuwait">>,
    <<24500, 26500, 50500, 52000, "Qatar">>,
    <<36000, 42000, 26000, 45000, "Turkey">>,
    <<32000, 37500, 35500, 42000, "Syria">>,
    <<29000, 33500, 35000, 39000, "Jordan">>,
    <<29000, 33500, 34000, 35900, "Israel">>,
    <<22000, 31500, 25000, 37000, "Egypt">>,
    <<12000, 19000, 42000, 54000, "Yemen">>,
    <<24000, 37000, 60000, 75000, "Pakistan">>,
    <<29000, 38500, 60000, 75000, "Afghanistan">>,
    <<34000, 35500, 32500, 34500, "Cyprus">>,
    <<10000, 12000, 42000, 44000, "Djibouti">>,
    <<-1000, 12000, 41000, 51000, "Somalia">>,
    <<12000, 18000, 36000, 43000, "Eritrea">>,
    <<47000, 55000, 5000, 15000, "Germany">>,
    <<36000, 47000, 6000, 19000, "Italy">>,
    <<36000, 44000, -10000, 5000, "Spain">>,
    <<50000, 55000, -6000, 2000, "England">>,
    <<55000, 59000, -8000, -1000, "Scotland">>,
    <<42000, 47000, -5000, 9000, "France">>,
    <<34000, 42000, 19000, 30000, "Greece">> >>

\* _WATER_BODIES: (lat_min, lat_max, lon_min, lon_max, name)
WATER_BODIES == <<
    <<26000, 27500, 49000, 56000, "the Persian Gulf">>,
    <<24000, 26500, 56000, 59000, "the Gulf of Oman">>,
    <<12000, 24000, 36000, 50000, "the Red Sea">>,
    <<10000, 20000, 50000, 60000, "the Arabian Sea">>,
    <<24000, 30000, 33000, 35000, "the eastern Mediterranean">>,
    <<34000, 37000, 28000, 36000, "the eastern Mediterranean">>,
    <<12000, 30000, 60000, 75000, "the Arabian Sea">>,
    <<11000, 13000, 43000, 48000, "the Gulf of Aden">>,
    <<30000, 42000, -5000, 15000, "the western Mediterranean">>,
    <<42000, 48000, -10000, 0, "the Bay of Biscay">>,
    <<25500, 27000, 56000, 57000, "the Strait of Hormuz">> >>

\* float('inf'): above every distance on the globe.
Infinity == 2147483647

Max(a, b) == IF a >= b THEN a ELSE b
Min(a, b) == IF a <= b THEN a ELSE b

\* The largest r in lo, lo + step, ..., lo + 35 * step with r * r <= n; the
\* squares stay below 2^31.
IsqrtBetween(n, lo, step) ==
    LET fits == {i \in 0..35 : /\ lo + i * step <= 46340
                               /\ (lo + i * step) * (lo + i * step) <= n}
    IN  lo + step * (CHOOSE i \in fits : \A j \in fits : j <= i)

\* math.sqrt, rounded down: found to the nearest 1296, then 36, then 1.
Isqrt(n) == IsqrtBetween(n, IsqrtBetween(n, IsqrtBetween(n, 0, 1296), 36), 1)

\* math.cos(math.radians(.)) of a latitude, in ten-thousandths: the series
\* 1 - x^2/2 + x^4/24 - x^6/720 with x in ten-thousandths of a radian.
Cos(mlat) ==
    LET x == (Abs(mlat) * 17453) \div 100000
        x2 == (x * x) \div 10000
        x4 == (x2 * x2) \div 10000
        x6 == (x4 * x2) \div 10000
    IN  10000 - x2 \div 2 + x4 \div 24 - x6 \div 720

\* _haversine_nm: the great-circle distance for R = 3440.065 nm, which is
\* 60.04 nm to the degree of arc.  The arc is taken from the two differences
\* with the longitude scaled by the cosine of the middle latitude, in the
\* finest unit 32-bit arithmetic allows; under 120 nm the result is within
\* 0.03 nm of the floating-point value.
haversine_nm(lat1, lon1, lat2, lon2) ==
    LET dlat == Abs(lat2 - lat1)
        c == Cos((lat1 + lat2) \div 2)
        dlon == (Abs(lon2 - lon1) * c) \div 10000
    IN  IF dlon <= 3000 /\ dlat <= 3000
        THEN LET fine == (Abs(lon2 - lon1) * c) \div 1000
             IN  (Isqrt(fine * fine + 100 * dlat * dlat) * 6004) \div 10000
        ELSE IF dlon <= 30000 /\ dlat <= 30000
        THEN (Isqrt(dlon * dlon + dlat * dlat) * 6004) \div 1000
        ELSE (Isqrt((dlon \div 10) * (dlon \div 10) + (dlat \div 10) * (dlat \div 10))
                 * 6004) \div 100

\* round(d * 1.151): statute miles to the nearest integer, a half to the even one.
Miles(d) ==
    LET n == d * 1151
        q == n \div 100000
        r == n % 100000
    IN  IF 2 * r < 100000 THEN q
        ELSE IF 2 * r > 100000 THEN q + 1
        ELSE IF q % 2 = 0 THEN q ELSE q + 1

\* f"{miles}"
Str(n) == ToString(n)

\* "and" in place of "or".
IsMissingBoth(la, lo) == la = None /\ lo = None

\* str.startswith
StartsWith(s, prefix) ==
    Len(prefix) <= Len(s) /\ SubSeq(s, 1, Len(prefix)) = prefix

\* str.endswith
EndsWith(s, suffix) ==
    Len(suffix) <= Len(s) /\ SubSeq(s, Len(s) - Len(suffix) + 1, Len(s)) = suffix

\* sub in s
HasSubstring(s, sub) ==
    \E i \in 1..(Len(s) - Len(sub) + 1) : SubSeq(s, i, i + Len(sub) - 1) = sub

\* if lat is None or lon is None
IsMissing(la, lo) == la = None \/ lo = None

\* The loop with "<=": of equally near reference points the last one wins.
RECURSIVE NearestReferenceLast(_, _, _, _)
NearestReferenceLast(la, lo, first, last) ==
    IF first > last THEN [nearest_dist |-> Infinity, nearest_ref |-> ""]
    ELSE IF first = last
    THEN LET d == haversine_nm(la, lo, REFERENCE_POINTS[first][1],
                               REFERENCE_POINTS[first][2])
         IN  IF d <= Infinity
             THEN [nearest_dist |-> d, nearest_ref |-> REFERENCE_POINTS[first][3]]
             ELSE [nearest_dist |-> Infinity, nearest_ref |-> ""]
    ELSE LET mid == (first + last) \div 2
             sofar == NearestReferenceLast(la, lo, first, mid)
             later == NearestReferenceLast(la, lo, mid + 1, last)
         IN  IF later.nearest_dist <= sofar.nearest_dist THEN later ELSE sofar

\* The loop over _REFERENCE_POINTS, from entry first through entry last:
\* if d < nearest_dist: nearest_dist = d; nearest_ref = rname
\* A later entry replaces what the earlier ones left only when it is
\* strictly nearer, so the result of the loop over a range is the result of
\* its second half where that is strictly nearer than the result of its
\* first half, and the result of its first half otherwise.
RECURSIVE NearestReference(_, _, _, _)
NearestReference(la, lo, first, last) ==
    IF first > last THEN [nearest_dist |-> Infinity, nearest_ref |-> ""]
    ELSE IF first = last
    THEN LET d == haversine_nm(la, lo, REFERENCE_POINTS[first][1],
                               REFERENCE_POINTS[first][2])
         IN  IF d < Infinity
             THEN [nearest_dist |-> d, nearest_ref |-> REFERENCE_POINTS[first][3]]
             ELSE [nearest_dist |-> Infinity, nearest_ref |-> ""]
    ELSE LET mid == (first + last) \div 2
             sofar == NearestReference(la, lo, first, mid)
             later == NearestReference(la, lo, mid + 1, last)
         IN  IF later.nearest_dist < sofar.nearest_dist THEN later ELSE sofar

\* "<=" in place of "<".
IsNearInclusive(d) == d <= 1500

\* if nearest_dist < 15
IsNear(d) == d < 1500

\* elif nearest_dist < 40
IsClose(d) == d < 4000

\* The 40 of step 1 in place of the 100.
IsRegionalClose(d) == d < 4000

\* if nearest_dist < 100
IsRegional(d) == d < 10000

\* lat_min <= lat <= lat_max and lon_min <= lon <= lon_max
Contains(box, la, lo) ==
    /\ box[1] <= la /\ la <= box[2]
    /\ box[3] <= lo /\ lo <= box[4]

\* The loop run to its end, the last containing box kept.
LastContaining(boxes, la, lo) ==
    IF \E i \in DOMAIN boxes : Contains(boxes[i], la, lo)
    THEN CHOOSE i \in DOMAIN boxes :
            /\ Contains(boxes[i], la, lo)
            /\ \A j \in (i + 1)..Len(boxes) : ~Contains(boxes[j], la, lo)
    ELSE 0

\* The loop over a table of boxes up to its first box that contains the
\* position: the index of that box, 0 when the loop runs out.
FirstContaining(boxes, la, lo) ==
    IF \E i \in DOMAIN boxes : Contains(boxes[i], la, lo)
    THEN CHOOSE i \in DOMAIN boxes :
            /\ Contains(boxes[i], la, lo)
            /\ \A j \in 1..(i - 1) : ~Contains(boxes[j], la, lo)
    ELSE 0

\* The distance taken to the middle of the box.
ClampedDistanceToCentre(box, la, lo) ==
    haversine_nm(la, lo, (box[1] + box[2]) \div 2, (box[3] + box[4]) \div 2)

\* Distance to the nearest point of a country box:
\* clat = max(clat_min, min(lat, clat_max)), likewise clon
ClampedDistance(box, la, lo) ==
    haversine_nm(la, lo, Max(box[1], Min(la, box[2])), Max(box[3], Min(lo, box[4])))

\* The loop over _COUNTRY_BOXES inside the water step, from entry first
\* through entry last, halved as the loop over the reference points is:
\* if cd < nearest_cdist: nearest_cdist = cd; nearest_country = cname
RECURSIVE NearestCountry(_, _, _, _)
NearestCountry(la, lo, first, last) ==
    IF first > last THEN [nearest_cdist |-> Infinity, nearest_country |-> ""]
    ELSE IF first = last
    THEN LET cd == ClampedDistance(COUNTRY_BOXES[first], la, lo)
         IN  IF cd < Infinity
             THEN [nearest_cdist |-> cd, nearest_country |-> COUNTRY_BOXES[first][5]]
             ELSE [nearest_cdist |-> Infinity, nearest_country |-> ""]
    ELSE LET mid == (first + last) \div 2
             sofar == NearestCountry(la, lo, first, mid)
             later == NearestCountry(la, lo, mid + 1, last)
         IN  IF later.nearest_cdist < sofar.nearest_cdist THEN later ELSE sofar

\* ">=" in place of ">".
IsOffshoreInclusive(c) == c.nearest_country # "" /\ c.nearest_cdist >= 500

\* if nearest_country and nearest_cdist > 5
IsOffshore(c) == c.nearest_country # "" /\ c.nearest_cdist > 500

\* The water step taken only where no country box contains the position.
WaterBoxOffCountry(la, lo) ==
    IF \E i \in DOMAIN COUNTRY_BOXES : Contains(COUNTRY_BOXES[i], la, lo)
    THEN 0
    ELSE \* as WaterBox
         IF \E i \in DOMAIN WATER_BODIES : Contains(WATER_BODIES[i], la, lo)
         THEN CHOOSE i \in DOMAIN WATER_BODIES :
                 /\ Contains(WATER_BODIES[i], la, lo)
                 /\ \A j \in 1..(i - 1) : ~Contains(WATER_BODIES[j], la, lo)
         ELSE 0

\* for ... in _WATER_BODIES: the water box step 2 stops at, 0 for none.
WaterBox(la, lo) == FirstContaining(WATER_BODIES, la, lo)

\* 2. Check if over water: the description, "" when no water box contains
\* the position.
OverWater(la, lo) ==
    LET w == WaterBox(la, lo)
    IN  IF w = 0 THEN ""
        ELSE LET c == NearestCountry(la, lo, 1, Len(COUNTRY_BOXES))
                 wname == WATER_BODIES[w][5]
             IN  IF IsOffshore(c)
                 THEN "over " \o wname \o ", ~" \o Str(Miles(c.nearest_cdist))
                          \o " mi off " \o c.nearest_country
                 ELSE "over " \o wname

\* 3. Check which country it's over: the description, "" when no country
\* box contains the position.
OverCountry(la, lo, n) ==
    LET c == FirstContaining(COUNTRY_BOXES, la, lo)
    IN  IF c = 0 THEN ""
        ELSE IF IsRegional(n.nearest_dist)
        THEN "over " \o COUNTRY_BOXES[c][5] \o ", ~" \o Str(Miles(n.nearest_dist))
                 \o " mi from " \o n.nearest_ref
        ELSE "over " \o COUNTRY_BOXES[c][5]

\* f"{lat}" of a coordinate with two decimals: 26.0, 26.5, 26.25, -0.5
Repr(x) ==
    LET whole == Abs(x) \div 1000
        cents == (Abs(x) % 1000) \div 10
    IN  (IF x < 0 THEN "-" ELSE "") \o Str(whole) \o "."
            \o (IF cents % 10 = 0 THEN Str(cents \div 10)
                ELSE Str(cents \div 10) \o Str(cents % 10))

\* 4. Fallback
Fallback(la, lo, n) ==
    IF n.nearest_ref # ""
    THEN "~" \o Str(Miles(n.nearest_dist)) \o " mi from " \o n.nearest_ref
    ELSE Repr(la) \o "°N, " \o Repr(lo) \o "°E"

\* describe_location past its first test, both coordinates present.
DescribePosition(la, lo) ==
    LET n == NearestReference(la, lo, 1, Len(REFERENCE_POINTS))
    IN  IF IsNear(n.nearest_dist) THEN "near " \o n.nearest_ref
        ELSE IF IsClose(n.nearest_dist)
        THEN "~" \o Str(Miles(n.nearest_dist)) \o " mi from " \o n.nearest_ref
        ELSE LET water == OverWater(la, lo)
             IN  IF water # "" THEN water
                 ELSE LET country == OverCountry(la, lo, n)
                      IN  IF country # "" THEN country
                          ELSE Fallback(la, lo, n)

\* lat2 - lat1 on None: TypeError in _haversine_nm
DescribeRaises(la, lo) == ~IsMissing(la, lo) /\ (la = None \/ lo = None)

describe_location(la, lo) ==
    IF IsMissing(la, lo) THEN "unknown location"
    ELSE DescribePosition(Val(la), Val(lo))

----------------------------------------------------------------------------
(* The classifier: identify_airframe and _resolve_icao_type.               *)
(* The dash of the role texts (U+2014) is written "--".                    *)

\* CALLSIGN_AIRFRAMES, in the order of the dict: (prefix, airframe, role)
CALLSIGN_AIRFRAMES == <<
    <<"RCH", "C-17A Globemaster III", "Strategic airlift">>,
    <<"REACH", "C-17A Globemaster III", "Strategic airlift">>,
    <<"PACK", "C-17A Globemaster III", "Strategic airlift">>,
    <<"DUKE", "C-17A Globemaster III", "Strategic airlift">>,
    <<"MOOSE", "C-5M Super Galaxy", "Heavy airlift">>,
    <<"FRED", "C-5M Super Galaxy", "Heavy airlift">>,
    <<"CARGO", "C-17A / C-5M", "Airlift">>,
    <<"HERK", "C-130J Super Hercules", "Tactical airlift">>,
    <<"HERKY", "C-130J Super Hercules", "Tactical airlift">>,
    <<"ETHYL", "KC-135 Stratotanker", "Aerial refueling">>,
    <<"JULIET", "KC-10 Extender", "Aerial refueling">>,
    <<"PEARL", "KC-135 Stratotanker", "Aerial refueling">>,
    <<"STEEL", "KC-46A Pegasus", "Aerial refueling">>,
    <<"SHELL", "KC-135 Stratotanker", "Aerial refueling">>,
    <<"TEAL", "KC-135 Stratotanker", "Aerial refueling">>,
    <<"NKAC", "KC-135 Stratotanker", "Aerial refueling">>,
    <<"PKSN", "KC-46A Pegasus", "Aerial refueling">>,
    <<"BLUE", "KC-135 / KC-46", "Aerial refueling">>,
    <<"CASA", "KC-135 Stratotanker", "Aerial refueling">>,
    <<"INDY", "KC-135 Stratotanker", "Aerial refueling">>,
    <<"DOOM", "B-2A Spirit", "Stealth bomber -- HIGH SIGNIFICANCE">>,
    <<"DEATH", "B-52H Stratofortress", "Strategic bomber">>,
    <<"BATT", "B-52H Stratofortress", "Strategic bomber">>,
    <<"MYTEE", "B-52H Stratofortress", "Strategic bomber">>,
    <<"BONE", "B-1B Lancer", "Supersonic bomber">>,
    <<"LANCE", "B-1B Lancer", "Supersonic bomber">>,
    <<"TIGER", "B-1B Lancer", "Supersonic bomber">>,
    <<"HOMER", "P-8A Poseidon", "Maritime patrol / ASW">>,
    <<"TOPCT", "RC-135V/W Rivet Joint", "SIGINT collection">>,
    <<"JAKE", "E-3 Sentry (AWACS)", "Airborne early warning">>,
    <<"TITAN", "RQ-4B Global Hawk", "High-altitude ISR drone">>,
    <<"FORTE", "RQ-4B Global Hawk", "High-altitude ISR drone">>,
    <<"MAGIC", "E-6B Mercury", "Airborne command post -- NUCLEAR C2">>,
    <<"SNTRY", "E-3 Sentry (AWACS)", "Airborne early warning">>,
    <<"REDEYE", "RC-135U Combat Sent", "Electronic intelligence">>,
    <<"RAIDR", "MC-130J Commando II", "Special operations">>,
    <<"OLIVE", "RC-135S Cobra Ball", "Missile tracking">>,
    <<"MAZDA", "E-8C JSTARS", "Ground surveillance">>,
    <<"VIPER", "F-16 Fighting Falcon", "Multirole fighter">>,
    <<"EAGLE", "F-15E Strike Eagle", "Air superiority / strike">>,
    <<"HAWK", "F-15E Strike Eagle", "Air superiority">>,
    <<"RAZOR", "F-22A Raptor", "Air superiority -- stealth">>,
    <<"STRIKE", "F-15E Strike Eagle", "Strike fighter">>,
    <<"BOLT", "F-35A Lightning II", "Stealth multirole">>,
    <<"WRATH", "F-15E Strike Eagle", "Strike fighter">>,
    <<"KING", "HC-130J Combat King II", "Combat search & rescue">>,
    <<"PEDRO", "HH-60W Jolly Green II", "Combat rescue helicopter">>,
    <<"JOLLY", "HH-60G Pave Hawk", "Combat rescue helicopter">>,
    <<"DUSTOFF", "UH-60 Black Hawk", "Medevac">>,
    <<"EVAC", "C-17A / C-130J", "Aeromedical evacuation">>,
    <<"SAM", "VC-25A / C-32A", "VIP transport -- SENIOR LEADER">>,
    <<"VENUS", "C-37A Gulfstream V", "VIP transport">>,
    <<"EXEC", "C-37A / C-40B", "Executive transport">>,
    <<"SPAR", "C-40B Clipper", "Congressional / senior leader">>,
    <<"NAVY", "P-8A / E-2D / C-2A", "Naval aviation">>,
    <<"HAVOC", "AH-1Z / MV-22", "Marine attack aviation">>,
    <<"CONDOR", "C-40A Clipper", "Naval logistics">>,
    <<"ASCOT", "C-17 / A400M / Voyager", "RAF transport / tanker">>,
    <<"RRR", "Voyager KC3 / A330 MRTT", "RAF aerial refueling">>,
    <<"GAF", "A400M / A310", "German Air Force transport">>,
    <<"FAF", "A400M / MRTT", "French Air Force">>,
    <<"IAM", "C-130J / KC-767", "Italian Air Force">> >>

\* _ICAO_TYPE_MAP, in the order of the dict: (type code, airframe, role)
ICAO_TYPE_MAP == <<
    <<"C17", "C-17A Globemaster III", "Strategic airlift">>,
    <<"C5M", "C-5M Super Galaxy", "Heavy strategic airlift">>,
    <<"C5", "C-5M Super Galaxy", "Heavy strategic airlift">>,
    <<"C130", "C-130 Hercules", "Tactical airlift">>,
    <<"C30J", "C-130J Super Hercules", "Tactical airlift">>,
    <<"C160", "C-160 Transall", "Tactical airlift">>,
    <<"A400", "A400M Atlas", "Tactical/strategic airlift">>,
    <<"A40M", "A400M Atlas", "Tactical/strategic airlift">>,
    <<"C2", "C-2 Greyhound", "Carrier logistics">>,
    <<"K35R", "KC-135R Stratotanker", "Aerial refueling">>,
    <<"K35E", "KC-135E Stratotanker", "Aerial refueling">>,
    <<"KC35", "KC-135 Stratotanker", "Aerial refueling">>,
    <<"K46", "KC-46A Pegasus", "Aerial refueling">>,
    <<"KC46", "KC-46A Pegasus", "Aerial refueling">>,
    <<"K10", "KC-10 Extender", "Aerial refueling">>,
    <<"KC10", "KC-10 Extender", "Aerial refueling">>,
    <<"MRTT", "A330 MRTT Voyager", "Aerial refueling">>,
    <<"A310", "A310 MRTT", "Aerial refueling / transport">>,
    <<"A332", "A330-200", "Transport / tanker variant">>,
    <<"GLEX", "RQ-4B Global Hawk / Bombardier", "High-altitude ISR / Business">>,
    <<"RQ4B", "RQ-4B Global Hawk", "High-altitude ISR drone">>,
    <<"E3CF", "E-3 Sentry AWACS", "Airborne early warning">>,
    <<"E3", "E-3 Sentry AWACS", "Airborne early warning">>,
    <<"E6", "E-6B Mercury", "TACAMO / nuclear C3">>,
    <<"E8", "E-8C JSTARS", "Ground surveillance">>,
    <<"P8", "P-8A Poseidon", "Maritime patrol / ASW">>,
    <<"P3", "P-3 Orion", "Maritime patrol">>,
    <<"RC35", "RC-135", "SIGINT reconnaissance">>,
    <<"E35L", "RC-135V/W Rivet Joint", "SIGINT reconnaissance">>,
    <<"B350", "MC-12W / King Air", "ISR / light transport">>,
    <<"BE20", "C-12 Huron", "Light transport / ISR">>,
    <<"B2", "B-2A Spirit", "Stealth strategic bomber">>,
    <<"B52", "B-52H Stratofortress", "Strategic bomber">>,
    <<"B1", "B-1B Lancer", "Strategic bomber">>,
    <<"F15", "F-15 Eagle/Strike Eagle", "Air superiority / strike">>,
    <<"F16", "F-16 Fighting Falcon", "Multirole fighter">>,
    <<"F18", "F/A-18 Hornet/Super Hornet", "Carrier multirole fighter">>,
    <<"F18S", "F/A-18E/F Super Hornet", "Carrier multirole fighter">>,
    <<"F22", "F-22A Raptor", "Air superiority">>,
    <<"F35", "F-35 Lightning II", "Stealth multirole fighter">>,
    <<"FA18", "F/A-18 Hornet", "Carrier multirole fighter">>,
    <<"EUFI", "Eurofighter Typhoon", "Multirole fighter">>,
    <<"RFAL", "Rafale", "Multirole fighter">>,
    <<"TORN", "Tornado", "Strike / interdiction">>,
    <<"H60", "UH-60 Black Hawk", "Utility helicopter">>,
    <<"H47", "CH-47 Chinook", "Heavy lift helicopter">>,
    <<"V22", "MV-22 Osprey", "Tiltrotor transport">>,
    <<"VC25", "VC-25A (Air Force One)", "Presidential transport">>,
    <<"C40A", "C-40A Clipper", "Executive transport">>,
    <<"C37A", "C-37A Gulfstream V", "Executive transport">> >>

\* str.upper(), letter by letter
UpperOf(c) ==
    LET lower == "abcdefghijklmnopqrstuvwxyz"
        upper == "ABCDEFGHIJKLMNOPQRSTUVWXYZ"
    IN  IF \E i \in 1..26 : SubSeq(lower, i, i) = c
        THEN LET i == CHOOSE j \in 1..26 : SubSeq(lower, j, j) = c
             IN  SubSeq(upper, i, i)
        ELSE c

RECURSIVE Upper(_)
Upper(s) == IF s = "" THEN "" ELSE UpperOf(Head(s)) \o Upper(Tail(s))

\* str.replace(ch, "")
RECURSIVE Remove(_, _)
Remove(s, ch) ==
    IF s = "" THEN ""
    ELSE (IF Head(s) = ch THEN "" ELSE Head(s)) \o Remove(Tail(s), ch)

\* The last entry that passes in place of the first.
LastKey(passing) ==
    IF passing = {} THEN 0
    ELSE CHOOSE k \in passing : \A j \in passing : j <= k

\* The first of the entries of a table that pass a test, 0 for none:
\* for key, val in table.items(): if test(key): return val
FirstKey(passing) ==
    IF passing = {} THEN 0
    ELSE CHOOSE k \in passing : \A j \in passing : k <= j

\* The (airframe, role) tuple of an entry.
Info(table, k) == <<table[k][2], table[k][3]>>

\* The key of an entry; None where the lookup ran through the table.
KeyAt(table, k) == IF k = 0 THEN None ELSE Some(table[k][1])

\* callsign.upper() on None: AttributeError
IdentifyRaises(cs) == cs = None

\* The entry at which the loop of identify_airframe returns, 0 for none:
\* if cs.startswith(prefix): return info
IdentifyIndex(cs) ==
    LET upper == Upper(Val(cs))
    IN  FirstKey({i \in DOMAIN CALLSIGN_AIRFRAMES :
                     StartsWith(upper, CALLSIGN_AIRFRAMES[i][1])})

identify_airframe(cs) ==
    LET k == IdentifyIndex(cs)
    IN  IF k = 0 THEN None ELSE Info(CALLSIGN_AIRFRAMES, k)

\* if not type_code
IsEmptyCode(code) == code = None \/ code = Some("")

\* tc = type_code.upper().replace("-", "")
Normalized(code) == Remove(Upper(Val(code)), "-")

\* The direct match left out.
DirectMatchSkipped(tc) == 0

\* if tc in _ICAO_TYPE_MAP: the entry under the key tc, 0 for none
DirectMatch(tc) ==
    FirstKey({i \in DOMAIN ICAO_TYPE_MAP : ICAO_TYPE_MAP[i][1] = tc})

\* if tc.startswith(key) or key.startswith(tc): the first such entry
PartialMatch(tc) ==
    FirstKey({i \in DOMAIN ICAO_TYPE_MAP :
                 \/ StartsWith(tc, ICAO_TYPE_MAP[i][1])
                 \/ StartsWith(ICAO_TYPE_MAP[i][1], tc)})

\* The entry _resolve_icao_type returns, 0 for none.
ResolveIndex(code) ==
    IF IsEmptyCode(code) THEN 0
    ELSE LET tc == Normalized(code)
         IN  IF DirectMatch(tc) # 0 THEN DirectMatch(tc) ELSE PartialMatch(tc)

resolve_icao_type(code) ==
    LET k == ResolveIndex(code)
    IN  IF k = 0 THEN None ELSE Info(ICAO_TYPE_MAP, k)

\* callsign = (ac.get("flight") or "").strip().upper()
FlightCallsign(flight) == Upper(IF flight = None THEN "" ELSE Val(flight))

\* if aircraft_type: airframe = _resolve_icao_type(aircraft_type)
ByType(aircraft_type) ==
    IF IsEmptyCode(aircraft_type) THEN None ELSE resolve_icao_type(aircraft_type)

\* The callsign lookup asked first.
ClassificationCallsignFirst(flight, aircraft_type) ==
    LET cs == FlightCallsign(flight)
        by_callsign == IF cs # "" THEN identify_airframe(Some(cs)) ELSE None
    IN  IF by_callsign # None THEN by_callsign ELSE ByType(aircraft_type)

\* Use airplanes.live's type field first, fall back to callsign lookup:
\* if not airframe and callsign: airframe = identify_airframe(callsign)
Classification(flight, aircraft_type) ==
    LET cs == FlightCallsign(flight)
    IN  IF ByType(aircraft_type) # None THEN ByType(aircraft_type)
        ELSE IF cs # "" THEN identify_airframe(Some(cs))
        ELSE None

\* The functions the two tests call.
Consulted(flight, aircraft_type) ==
    (IF IsEmptyCode(aircraft_type) THEN {} ELSE {"_resolve_icao_type"})
    \cup (IF ByType(aircraft_type) = None /\ FlightCallsign(flight) # ""
          THEN {"identify_airframe"} ELSE {})

\* "airframe": airframe[0] if airframe else (aircraft_type or "Unknown type")
\* "role": airframe[1] if airframe else "Military"
RecordAirframe(found, aircraft_type) ==
    IF found # None THEN found
    ELSE <<IF IsEmptyCode(aircraft_type) THEN "Unknown type" ELSE Val(aircraft_type),
           "Military">>

----------------------------------------------------------------------------
(* The state machine.                                                      *)

Init ==
    /\ now = 0
    /\ pc = "idle"
    /\ history_file = NoFile
    /\ hist_status = "none"
    /\ hist_timestamp = None
    /\ prev_callsigns = {}
    /\ prev_markets = NoMarkets
    /\ opensky = NoOpensky
    /\ polymarket = NoPolymarket
    /\ current_callsigns = {}
    /\ new_count = 0
    /\ market_alerts = <<>>
    /\ last_saved = NoSnapshot
    /\ prior_saved = NoSnapshot
    /\ lat = None
    /\ lon = None
    /\ location_desc = ""
    /\ callsign = None
    /\ type_code = None
    /\ airframe = None
    /\ key = None
    /\ consulted = {}

\* The process is gone: main's locals with it.
ForgetLocals ==
    /\ hist_status' = "none"
    /\ hist_timestamp' = None
    /\ prev_callsigns' = {}
    /\ prev_markets' = NoMarkets
    /\ opensky' = NoOpensky
    /\ polymarket' = NoPolymarket
    /\ current_callsigns' = {}
    /\ new_count' = 0
    /\ market_alerts' = <<>>
    /\ prior_saved' = NoSnapshot

\* Time passes between two invocations.
Tick(gaps) ==
    /\ pc = "idle"
    /\ \E g \in gaps : now + g <= MaxTime /\ now' = now + g
    /\ UNCHANGED <<pc, history_file, hist_status, hist_timestamp, prev_callsigns,
                   prev_markets, opensky, polymarket, current_callsigns,
                   new_count, market_alerts, last_saved, prior_saved>>
    /\ UNCHANGED lookup

\* More than thirty days pass between two invocations.
Lapse ==
    /\ pc = "idle"
    /\ now <= MaxTime
    /\ now' = now + 30 * 24 + 1
    /\ UNCHANGED <<pc, history_file, hist_status, hist_timestamp, prev_callsigns,
                   prev_markets, opensky, polymarket, current_callsigns,
                   new_count, market_alerts, last_saved, prior_saved>>
    /\ UNCHANGED lookup

\* 0. Load yesterday's history for comparison
Load ==
    /\ pc = "idle"
    /\ pc' = "fetch"
    /\ hist_status' = LoadStatus(history_file)
    /\ prev_callsigns' = LoadedCallsigns(history_file)
    /\ prev_markets' = LoadedMarkets(history_file)
    /\ hist_timestamp' = LoadedTimestamp(history_file)
    /\ prior_saved' = last_saved
    /\ UNCHANGED <<now, history_file, opensky, polymarket, current_callsigns,
                   new_count, market_alerts, last_saved>>
    /\ UNCHANGED lookup

\* 1. Fetch all data sources
Fetch(openskyResults, polymarketResults) ==
    /\ pc = "fetch"
    /\ pc' = "tag"
    /\ opensky' \in openskyResults
    /\ polymarket' \in polymarketResults
    /\ UNCHANGED <<now, history_file, hist_status, hist_timestamp, prev_callsigns,
                   prev_markets, current_callsigns, new_count, market_alerts,
                   last_saved, prior_saved>>
    /\ UNCHANGED lookup

\* 1b. Tag aircraft as new or returning
Tag ==
    /\ pc = "tag"
    /\ pc' = "deltas"
    /\ LET tagged == TagAircraft(opensky.mil_aircraft, prev_callsigns)
       IN  /\ opensky' = [opensky EXCEPT !.mil_aircraft = tagged]
           /\ current_callsigns' = CallsignsOf(opensky.mil_aircraft)
           /\ new_count' = CountNew(tagged)
    /\ UNCHANGED <<now, history_file, hist_status, hist_timestamp, prev_callsigns,
                   prev_markets, polymarket, market_alerts, last_saved, prior_saved>>
    /\ UNCHANGED lookup

\* 1c. Compute market deltas; an exception of the loop body ends main
Deltas ==
    /\ pc = "deltas"
    /\ LET list == polymarket.markets
           raising == RaisingAt(list, prev_markets)
           k == IF raising = {} THEN Len(list)
                ELSE (CHOOSE i \in raising : \A j \in raising : i <= j) - 1
       IN  /\ polymarket' = [polymarket EXCEPT
                                !.markets = AnnotateFirst(list, prev_markets, k)]
           /\ market_alerts' = AlertsOfFirst(list, prev_markets, k)
           /\ pc' = IF raising = {} THEN "save" ELSE "aborted"
    /\ UNCHANGED <<now, history_file, hist_status, hist_timestamp, prev_callsigns,
                   prev_markets, opensky, current_callsigns, new_count,
                   last_saved, prior_saved>>
    /\ UNCHANGED lookup

\* The exception of a failed save ends main.
AfterSaveErrorAborts == "aborted"

\* except Exception as e: the error is printed and main goes on with step 2.
AfterSaveError == "analysis"

\* 1d. with open(history_path, "w") as f: the open truncates the file, or
\* raises and the except clause logs it
SaveOpen ==
    /\ pc = "save"
    /\ \/ /\ history_file' = OpenForWrite(history_file)
          /\ pc' = "dump"
       \/ /\ history_file' = history_file
          /\ pc' = AfterSaveError
    /\ UNCHANGED <<now, hist_status, hist_timestamp, prev_callsigns, prev_markets,
                   opensky, polymarket, current_callsigns, new_count,
                   market_alerts, last_saved, prior_saved>>
    /\ UNCHANGED lookup

\* 1d. json.dump into the open file: the whole document, or an exception
\* part-way through, which the except clause logs
SaveDump(traced) ==
    /\ pc = "dump"
    /\ \/ /\ pc' = "analysis"
          /\ history_file' =
                Dump(history_file,
                     SnapshotDoc(now, SavedCallsigns(current_callsigns, prev_callsigns),
                                 polymarket.markets))
          /\ last_saved' = [has |-> TRUE, timestamp |-> now,
                            callsigns |-> CallsignsOf(opensky.mil_aircraft),
                            markets |-> MarketSnapshot(polymarket.markets),
                            status |-> IF traced THEN opensky.status
                                                 ELSE NoSnapshot.status,
                            before |-> IF traced THEN last_saved.callsigns
                                                 ELSE NoSnapshot.before]
       \/ /\ pc' = AfterSaveError
          /\ history_file' = Dump(history_file, PartialDoc)
          /\ last_saved' = last_saved
    /\ UNCHANGED <<now, hist_status, hist_timestamp, prev_callsigns, prev_markets,
                   opensky, polymarket, current_callsigns, new_count,
                   market_alerts, prior_saved>>
    /\ UNCHANGED lookup

\* 2.-4. analysis, HTML, index.html
Report ==
    /\ pc = "analysis"
    /\ pc' = "done"
    /\ UNCHANGED <<now, history_file, hist_status, hist_timestamp, prev_callsigns,
                   prev_markets, opensky, polymarket, current_callsigns,
                   new_count, market_alerts, last_saved, prior_saved>>
    /\ UNCHANGED lookup

\* main returns, or the uncaught exception ends the process
Exit ==
    /\ pc \in {"done", "aborted"}
    /\ pc' = "idle"
    /\ ForgetLocals
    /\ UNCHANGED <<now, history_file, last_saved>>
    /\ UNCHANGED lookup

\* The process is killed while main runs.
Crash ==
    /\ pc \in {"fetch", "tag", "deltas", "save", "dump", "analysis"}
    /\ pc' = "idle"
    /\ ForgetLocals
    /\ UNCHANGED <<now, history_file, last_saved>>
    /\ UNCHANGED lookup

\* A stored record as the program wrote it.
Intact(f) ==
    /\ LoadsAsObject(f)
    /\ \A i \in DOMAIN f.docs[1].markets : f.docs[1].markets[i].probability.kind = "int"

\* Damage to the stored record between two invocations: the text cut short,
\* a JSON value that is no object, a market entry without its probability,
\* a market entry whose probability is no number.
Damaged(f) ==
    {[f EXCEPT !.docs = <<PartialDoc>>],
     [f EXCEPT !.docs[1].shape = "array"]}
    \cup {[f EXCEPT !.docs[1].markets[i].probability = p] :
            i \in DOMAIN f.docs[1].markets, p \in {JsonAbsent, JsonNotNumber}}

Corrupt ==
    /\ pc = "idle"
    /\ Intact(history_file)
    /\ history_file' \in Damaged(history_file)
    /\ UNCHANGED <<now, pc, hist_status, hist_timestamp, prev_callsigns,
                   prev_markets, opensky, polymarket, current_callsigns,
                   new_count, market_alerts, last_saved, prior_saved>>
    /\ UNCHANGED lookup

Cycle(openskyResults, polymarketResults, traced) ==
    \/ Tick(Gaps)
    \/ Load
    \/ Fetch(openskyResults, polymarketResults)
    \/ Tag
    \/ Deltas
    \/ SaveOpen
    \/ SaveDump(traced)
    \/ Report
    \/ Exit
    \/ Crash
    \/ Corrupt

Step(openskyResults, polymarketResults) ==
    Cycle(openskyResults, polymarketResults, FALSE)

\* Cycles over every aircraft list and a single market.
Next ==
    Step(OpenskyResults(Callsigns, MaxAircraft),
         PolymarketResults({"Q1"}, {<<40, 0>>, <<55, 20000>>}))

Spec == Init /\ [][Next]_vars

\* Cycles over every market list and a single aircraft.
NextMarkets ==
    Step(OpenskyResults({"RCH4521"}, 1), PolymarketResults(Questions, Quotes))

SpecMarkets == Init /\ [][NextMarkets]_vars

\* Cycles that may lie more than thirty days apart.
NextRetention ==
    \/ Lapse
    \/ Step(OpenskyResults({"RCH4521"}, 1),
            PolymarketResults({"Q1"}, {<<40, 0>>, <<55, 20000>>}))

SpecRetention == Init /\ [][NextRetention]_vars

\* Three cycles in a row over two callsigns, every save traced.
NextSequence ==
    Cycle(OpenskyResults({"RCH4521", "ETHYL21"}, MaxAircraft),
          PolymarketResults({"Q1"}, {<<40, 0>>}), TRUE)

SpecSequence == Init /\ [][NextSequence]_vars

----------------------------------------------------------------------------
(* The lookups, each called on its own.                                    *)

\* No invocation of main has run.
MainAtRest ==
    /\ now = 0
    /\ history_file = NoFile
    /\ hist_status = "none"
    /\ hist_timestamp = None
    /\ prev_callsigns = {}
    /\ prev_markets = NoMarkets
    /\ opensky = NoOpensky
    /\ polymarket = NoPolymarket
    /\ current_callsigns = {}
    /\ new_count = 0
    /\ market_alerts = <<>>
    /\ last_saved = NoSnapshot
    /\ prior_saved = NoSnapshot

\* describe_location is about to be called on a position, or with one or
\* both coordinates None.
InitLocation ==
    /\ MainAtRest
    /\ pc = "describe_location"
    /\ \E p \in Positions :
          /\ lat \in {None, Some(p[1])}
          /\ lon \in {None, Some(p[2])}
    /\ location_desc = ""
    /\ callsign = None
    /\ type_code = None
    /\ airframe = None
    /\ key = None
    /\ consulted = {}

\* The call of describe_location(lat, lon): it returns, or an exception
\* leaves it.
DescribeLocation ==
    /\ pc = "describe_location"
    /\ IF DescribeRaises(lat, lon)
       THEN /\ pc' = "describe_location: raise"
            /\ location_desc' = location_desc
       ELSE /\ pc' = "describe_location: return"
            /\ location_desc' = describe_location(lat, lon)
    /\ UNCHANGED <<main_state, lat, lon, callsign, type_code, airframe, key,
                   consulted>>

NextLocation == DescribeLocation

SpecLocation == InitLocation /\ [][NextLocation]_vars

\* identify_airframe or _resolve_icao_type is about to be called, on a
\* string or on None.
InitClassify ==
    /\ MainAtRest
    /\ pc = "classify"
    /\ lat = None
    /\ lon = None
    /\ location_desc = ""
    /\ callsign \in {None} \cup {Some(s) : s \in CallsignInputs}
    /\ type_code \in {None} \cup {Some(s) : s \in TypeCodeInputs}
    /\ airframe = None
    /\ key = None
    /\ consulted = {}

\* The call of identify_airframe(callsign): it returns, or an exception
\* leaves it.
IdentifyAirframe ==
    /\ pc = "classify"
    /\ IF IdentifyRaises(callsign)
       THEN /\ pc' = "identify_airframe: raise"
            /\ airframe' = airframe
            /\ key' = key
       ELSE /\ pc' = "identify_airframe: return"
            /\ airframe' = identify_airframe(callsign)
            /\ key' = KeyAt(CALLSIGN_AIRFRAMES, IdentifyIndex(callsign))
    /\ UNCHANGED <<main_state, lat, lon, location_desc, callsign, type_code,
                   consulted>>

\* The call of _resolve_icao_type(type_code).
ResolveIcaoType ==
    /\ pc = "classify"
    /\ pc' = "_resolve_icao_type: return"
    /\ airframe' = resolve_icao_type(type_code)
    /\ key' = KeyAt(ICAO_TYPE_MAP, ResolveIndex(type_code))
    /\ UNCHANGED <<main_state, lat, lon, location_desc, callsign, type_code,
                   consulted>>

\* The enrichment of one aircraft of the feed in fetch_opensky, from its
\* "flight" and "t" fields to the airframe and role of its record.
Enrich ==
    /\ pc = "classify"
    /\ pc' = "fetch_opensky: enriched"
    /\ airframe' = RecordAirframe(Classification(callsign, type_code), type_code)
    /\ consulted' = Consulted(callsign, type_code)
    /\ UNCHANGED <<main_state, lat, lon, location_desc, callsign, type_code, key>>

NextClassify ==
    \/ IdentifyAirframe
    \/ ResolveIcaoType
    \/ Enrich

SpecClassify == InitClassify /\ [][NextClassify]_vars

----------------------------------------------------------------------------
(* Where main stands.                                                      *)

\* Step 1b has run.
Tagged == pc \in {"deltas", "save", "dump", "analysis", "done", "aborted"}

\* Step 1c has run to its end.
Annotated == pc \in {"save", "dump", "analysis", "done"}

NewIdentifiers ==
    {opensky.mil_aircraft[i].callsign :
        i \in {j \in DOMAIN opensky.mil_aircraft : opensky.mil_aircraft[j].status = "new"}}

ReturningIdentifiers ==
    {opensky.mil_aircraft[i].callsign :
        i \in {j \in DOMAIN opensky.mil_aircraft :
                  opensky.mil_aircraft[j].status = "returning"}}

----------------------------------------------------------------------------
(* C1: once the aircraft are tagged, the callsigns tagged "new" are the    *)
(* current set minus the previous set and the callsigns tagged "returning" *)
(* are the current set intersected with the previous set; the two are      *)
(* disjoint, together they are the current set, and a callsign of the      *)
(* previous set that is not in the current set carries no tag.             *)
C1_Partition ==
    Tagged =>
        /\ NewIdentifiers = current_callsigns \ prev_callsigns
        /\ ReturningIdentifiers = current_callsigns \cap prev_callsigns
        /\ NewIdentifiers \cap ReturningIdentifiers = {}
        /\ NewIdentifiers \cup ReturningIdentifiers = current_callsigns
        /\ \A cs \in prev_callsigns \ current_callsigns :
              cs \notin NewIdentifiers \cup ReturningIdentifiers
        /\ \A i \in DOMAIN opensky.mil_aircraft :
              opensky.mil_aircraft[i].status \in {"new", "returning"}

\* A cycle with a new, a returning and a departed callsign.
C1_Witness ==
    /\ Tagged
    /\ NewIdentifiers # {}
    /\ ReturningIdentifiers # {}
    /\ prev_callsigns \ current_callsigns # {}

(* C2: whenever the load parsed a record, the previous identifier set the  *)
(* cycle diffs against is the identifier set observed by the latest        *)
(* earlier cycle whose save completed, and it stays that set through the   *)
(* cycle's own save.                                                       *)
C2_PreviousIsLatestPrior ==
    (pc # "idle" /\ hist_status = "ok") =>
        /\ prior_saved.has
        /\ prev_callsigns = prior_saved.callsigns
        /\ hist_timestamp = Some(prior_saved.timestamp)

\* The cycle has saved a different set of its own and still holds the prior one.
C2_Witness ==
    /\ pc = "done"
    /\ hist_status = "ok"
    /\ JsonLoads(history_file)
    /\ last_saved.callsigns = current_callsigns
    /\ history_file.docs[1].callsigns = current_callsigns
    /\ current_callsigns # prev_callsigns
    /\ prev_callsigns # {}
    /\ prev_callsigns = prior_saved.callsigns

----------------------------------------------------------------------------
(* Hours between the record the load parsed and now.                       *)
HistoryAge == now - Val(hist_timestamp)

(* C3: a market carries a delta only if the record it was computed from is *)
(* between 20 and 30 hours old; a record outside that window gives no      *)
(* delta.                                                                  *)
C3_DeltaOnlyFromWindow ==
    Annotated =>
        \A i \in DOMAIN polymarket.markets :
            polymarket.markets[i].prob_delta # None =>
                (hist_timestamp # None /\ HistoryAge \in 20..30)

(* C4: a delta computed against a stored numeric probability is the        *)
(* current probability minus the stored one, sign kept; every market with  *)
(* a stored entry gets a delta once step 1c is through.                    *)
C4_SignedDelta ==
    \A i \in DOMAIN polymarket.markets :
        LET m == polymarket.markets[i]
        IN  /\ (/\ m.prob_delta # None
                /\ m.question \in DOMAIN prev_markets
                /\ prev_markets[m.question].probability.kind = "int")
               => Val(m.prob_delta) =
                     m.probability - prev_markets[m.question].probability.v
            /\ (Annotated /\ m.question \in DOMAIN prev_markets)
               => m.prob_delta # None

\* 40 -> 55 reported as +15 and 55 -> 40 as -15, in one cycle.
C4_Witness ==
    /\ Annotated
    /\ \E i, j \in DOMAIN polymarket.markets :
          LET a == polymarket.markets[i]
              b == polymarket.markets[j]
          IN  /\ a.question \in DOMAIN prev_markets
              /\ b.question \in DOMAIN prev_markets
              /\ prev_markets[a.question].probability = JsonInt(40)
              /\ a.probability = 55
              /\ a.prob_delta = Some(15)
              /\ prev_markets[b.question].probability = JsonInt(55)
              /\ b.probability = 40
              /\ b.prob_delta = Some(0 - 15)

(* C5: a delta of zero is reported only when the stored record has a       *)
(* probability equal to the current one, and a volume ratio of zero only   *)
(* when the stored record has a volume and the current volume is zero.     *)
C5_ZeroOnlyWhenReallyZero ==
    Annotated =>
        \A i \in DOMAIN polymarket.markets :
            LET m == polymarket.markets[i]
            IN  /\ m.prob_delta = Some(0) =>
                      /\ m.question \in DOMAIN prev_markets
                      /\ prev_markets[m.question].probability = JsonInt(m.probability)
                /\ m.vol_ratio = Some(0) =>
                      /\ m.question \in DOMAIN prev_markets
                      /\ m.volume = 0

(* C6, as claimed: the save leaves a stored record in place.               *)
C6_NeverOverwrites ==
    [][(pc = "save" /\ JsonLoads(history_file)) =>
          (JsonLoads(history_file') /\ history_file'.docs[1] = history_file.docs[1])]_vars

(* C6, amended: the save replaces the stored record whatever its           *)
(* timestamp.  Opening the file empties it, a completed dump leaves the    *)
(* new record alone in it, and the file keeps what it held only when the   *)
(* open itself fails.                                                      *)
C6_SaveReplaces ==
    [][/\ (pc = "save" /\ pc' = "dump") =>
              (history_file'.exists /\ history_file'.docs = <<>>)
       /\ (pc = "dump" /\ pc' = "analysis") =>
              \/ history_file'.docs =
                    <<SnapshotDoc(now, current_callsigns, polymarket.markets)>>
              \/ history_file'.docs = <<PartialDoc>>
       /\ (pc = "save" /\ pc' = "analysis") => history_file' = history_file]_vars

\* A record loaded under the timestamp of this cycle's save has been replaced.
C6_Witness ==
    /\ pc = "analysis"
    /\ hist_status = "ok"
    /\ hist_timestamp = Some(now)
    /\ current_callsigns # prev_callsigns
    /\ history_file.docs = <<SnapshotDoc(now, current_callsigns, polymarket.markets)>>

(* C7: no two complete records of history.json carry the same timestamp.   *)
C7_UniqueTimestamps ==
    \A i, j \in DOMAIN history_file.docs :
        (/\ i # j
         /\ history_file.docs[i].complete
         /\ history_file.docs[j].complete)
        => history_file.docs[i].timestamp # history_file.docs[j].timestamp

\* Two saves under one timestamp: the second cycle has loaded the first's
\* record and saved its own.
C7_Witness ==
    /\ pc = "done"
    /\ hist_timestamp = Some(now)
    /\ prior_saved.has
    /\ last_saved # prior_saved
    /\ last_saved.timestamp = now
    /\ JsonLoads(history_file)
    /\ history_file.docs[1].timestamp = now

(* C8: a step of the save that starts from a complete stored record ends   *)
(* with a complete stored record.                                          *)
C8_AtomicSave ==
    [][(pc \in {"save", "dump"} /\ JsonLoads(history_file)) =>
          JsonLoads(history_file')]_vars

\* The load met a record that is not as the program writes it.
MalformedLoaded ==
    /\ pc # "idle"
    /\ \/ hist_status = "error"
       \/ \E q \in DOMAIN prev_markets : prev_markets[q].probability.kind # "int"

(* C9: a cycle whose load met a malformed record is not aborted.           *)
C9_MalformedNeverAborts == MalformedLoaded => pc # "aborted"

(* C10: the identifier set of the stored record is a subset of the         *)
(* callsigns of the aircraft observed by the cycle that stored it.         *)
C10_NoFabrication ==
    JsonLoads(history_file) =>
        /\ last_saved.has
        /\ history_file.docs[1].callsigns \subseteq last_saved.callsigns

\* A cycle has stored its set while the previous set held a departed callsign.
C10_Witness ==
    /\ pc = "analysis"
    /\ JsonLoads(history_file)
    /\ last_saved # prior_saved
    /\ history_file.docs[1].callsigns = CallsignsOf(opensky.mil_aircraft)
    /\ history_file.docs[1].callsigns # {}
    /\ prev_callsigns \ current_callsigns # {}

----------------------------------------------------------------------------
(* C11: a load that meets the record as the last completed save wrote it   *)
(* holds the identifier set that save observed and, for every question it  *)
(* saved, the probability and the volume it saved, and holds no other      *)
(* question.                                                               *)
C11_RoundTrip ==
    (pc = "fetch" /\ Intact(history_file)) =>
        /\ last_saved.has
        /\ prev_callsigns = last_saved.callsigns
        /\ DOMAIN prev_markets =
              {last_saved.markets[i].question : i \in DOMAIN last_saved.markets}
        /\ \A i \in DOMAIN last_saved.markets :
              LET saved == last_saved.markets[i]
              IN  /\ prev_markets[saved.question].probability = saved.probability
                  /\ prev_markets[saved.question].volume = saved.volume

\* A later cycle has loaded two callsigns and a market saved by an earlier one.
C11_Witness ==
    /\ pc = "fetch"
    /\ Intact(history_file)
    /\ now > last_saved.timestamp
    /\ Cardinality(prev_callsigns) = 2
    /\ "Q1" \in DOMAIN prev_markets
    /\ prev_markets["Q1"].probability = JsonInt(55)
    /\ prev_markets["Q1"].volume = 20000

----------------------------------------------------------------------------
(* C12: a record more than 30 days old is not used for comparison (no      *)
(* aircraft is tagged "returning" from it and no market gets a delta from  *)
(* it), and once a cycle is through no complete record of history.json is  *)
(* more than 30 days old.                                                  *)
C12_Retention ==
    /\ (Tagged /\ hist_timestamp # None /\ HistoryAge > 30 * 24) =>
            /\ ReturningIdentifiers = {}
            /\ \A i \in DOMAIN polymarket.markets :
                  polymarket.markets[i].prob_delta = None
    /\ pc = "done" =>
            \A i \in DOMAIN history_file.docs :
                history_file.docs[i].complete =>
                    now - history_file.docs[i].timestamp <= 30 * 24

----------------------------------------------------------------------------
\* describe_location has returned.
Described == pc = "describe_location: return"

(* C13: describe_location called with the latitude or the longitude (or    *)
(* both) None returns "unknown location", whatever the other coordinate,   *)
(* and no call of it with a coordinate None raises.                        *)
C13_UnknownLocation ==
    /\ (Described /\ (lat = None \/ lon = None)) => location_desc = "unknown location"
    /\ (lat = None \/ lon = None) => pc # "describe_location: raise"

\* The latitude is present and the longitude is missing.
C13_Witness ==
    /\ Described
    /\ lat # None
    /\ lon = None
    /\ location_desc = "unknown location"

----------------------------------------------------------------------------
(* What the claims about a resolved position speak of.                     *)

\* describe_location has returned for a position.
Positioned == Described /\ lat # None /\ lon # None

\* The least value of a function over a table, and the first index with a
\* given value.
MinOf(f) == CHOOSE d \in {f[k] : k \in DOMAIN f} : \A k \in DOMAIN f : d <= f[k]
FirstAt(f, d) == CHOOSE k \in DOMAIN f : f[k] = d /\ \A j \in 1..(k - 1) : f[j] # d

\* The distance from the position to every reference point.
RefDistances ==
    [k \in DOMAIN REFERENCE_POINTS |->
        haversine_nm(Val(lat), Val(lon), REFERENCE_POINTS[k][1], REFERENCE_POINTS[k][2])]

\* The least of them, and the first-declared reference point at that distance.
MinRefDistance == MinOf(RefDistances)
FirstNearestRef == LET f == RefDistances IN REFERENCE_POINTS[FirstAt(f, MinOf(f))][3]

\* The distance from the position to every country box.
ClampedDistances ==
    [k \in DOMAIN COUNTRY_BOXES |-> ClampedDistance(COUNTRY_BOXES[k], Val(lat), Val(lon))]

MinClampedDistance == MinOf(ClampedDistances)
FirstNearestCountry == LET f == ClampedDistances IN COUNTRY_BOXES[FirstAt(f, MinOf(f))][5]

\* The boxes of a table that contain the position, by index.
BoxesAround(boxes) == {i \in DOMAIN boxes : Contains(boxes[i], Val(lat), Val(lon))}
InWater == BoxesAround(WATER_BODIES) # {}
InCountry == BoxesAround(COUNTRY_BOXES) # {}

\* The name of the first-declared box of a table that contains the position.
FirstAround(boxes) ==
    LET around == BoxesAround(boxes)
    IN  boxes[CHOOSE i \in around : \A j \in around : i <= j][5]

\* The description is "over {name}", with or without a suffix.
IsOver(name) ==
    \/ location_desc = "over " \o name
    \/ StartsWith(location_desc, "over " \o name \o ",")

(* C14: when the nearest reference point is less than 15 nm away the       *)
(* description is "near {name}" of that point; from 15 nm to less than     *)
(* 40 nm it is "~{miles} mi from {name}"; both whatever water or country   *)
(* box the position lies in.  From 40 nm on step 1 does not decide: a      *)
(* position inside any box is described as "over ...".                     *)
C14_ReferenceFirst ==
    Positioned =>
        LET d == MinRefDistance
            name == FirstNearestRef
        IN  /\ d < 1500 => location_desc = "near " \o name
            /\ (1500 <= d /\ d < 4000) =>
                  location_desc = "~" \o Str(Miles(d)) \o " mi from " \o name
            /\ (d >= 4000 /\ (InWater \/ InCountry)) =>
                  StartsWith(location_desc, "over ")

\* 15.00 nm from Bandar Abbas, inside the Strait of Hormuz box and the Iran box.
C14_Witness ==
    /\ Positioned
    /\ MinRefDistance = 1500
    /\ InWater
    /\ InCountry
    /\ location_desc = "~17 mi from Bandar Abbas"

(* C15: a position at least 40 nm from every reference point that lies in  *)
(* a water box is described as "over {water}" for a water box containing   *)
(* it, also when country boxes contain it; a description "over {country}"  *)
(* is given only to positions that no water box contains.                  *)
C15_WaterFirst ==
    (Positioned /\ MinRefDistance >= 4000) =>
        /\ InWater =>
              \E w \in BoxesAround(WATER_BODIES) : IsOver(WATER_BODIES[w][5])
        /\ (\E c \in DOMAIN COUNTRY_BOXES : IsOver(COUNTRY_BOXES[c][5])) => ~InWater

\* Inside the Persian Gulf box and the Iran and Saudi Arabia boxes.
C15_Witness ==
    /\ Positioned
    /\ MinRefDistance >= 4000
    /\ InWater
    /\ Cardinality(BoxesAround(COUNTRY_BOXES)) >= 2
    /\ location_desc = "over the Persian Gulf"

(* C16: of several boxes of one kind that contain the position, bounds     *)
(* included, the description names the one declared first: the first       *)
(* containing water box, or with no water box the first containing country *)
(* box.                                                                    *)
C16_FirstBoxWins ==
    (Positioned /\ MinRefDistance >= 4000) =>
        /\ InWater => IsOver(FirstAround(WATER_BODIES))
        /\ (~InWater /\ InCountry) => IsOver(FirstAround(COUNTRY_BOXES))

\* On the corner shared by the Persian Gulf, Gulf of Oman and Strait of
\* Hormuz boxes.
C16_Witness ==
    /\ Positioned
    /\ lat = Some(26000)
    /\ lon = Some(56000)
    /\ Cardinality(BoxesAround(WATER_BODIES)) = 3
    /\ location_desc = "over the Persian Gulf"

(* C17: over water the description ends ", ~{miles} mi off {country}" for  *)
(* the country box at the least clamped-point distance, the first-declared *)
(* of several at that distance, exactly when that distance is more than    *)
(* 5 nm; at 5 nm or less it is plain "over {water}".                       *)
C17_OffCountry ==
    (Positioned /\ MinRefDistance >= 4000 /\ InWater) =>
        LET cd == MinClampedDistance
            water == FirstAround(WATER_BODIES)
        IN  IF cd > 500
            THEN location_desc =
                    "over " \o water \o ", ~" \o Str(Miles(cd)) \o " mi off "
                        \o FirstNearestCountry
            ELSE location_desc = "over " \o water

\* As far from the Cyprus box as from the Greece box, which is declared later.
C17_Witness ==
    /\ Positioned
    /\ Cardinality({k \in DOMAIN COUNTRY_BOXES :
                       ClampedDistances[k] = MinClampedDistance}) = 2
    /\ MinClampedDistance > 500
    /\ location_desc = "over the eastern Mediterranean, ~72 mi off Cyprus"

(* C18: a position at least 40 nm from every reference point and in no     *)
(* water box is described, inside a country box, as "over {country},       *)
(* ~{miles} mi from {reference}" when the nearest reference point is less  *)
(* than 100 nm away and as plain "over {country}" otherwise; in no box at  *)
(* all it is described as "~{miles} mi from {reference}".                  *)
C18_CountryStep ==
    (Positioned /\ MinRefDistance >= 4000 /\ ~InWater) =>
        LET d == MinRefDistance
            from == "~" \o Str(Miles(d)) \o " mi from " \o FirstNearestRef
        IN  IF InCountry
            THEN LET country == FirstAround(COUNTRY_BOXES)
                 IN  IF d < 10000
                     THEN location_desc = "over " \o country \o ", " \o from
                     ELSE location_desc = "over " \o country
            ELSE location_desc = from

\* 99.99 nm from Al Udeid, over Saudi Arabia.
C18_Witness ==
    /\ Positioned
    /\ MinRefDistance = 9999
    /\ ~InWater
    /\ location_desc = "over Saudi Arabia, ~115 mi from Al Udeid AB, Qatar"

(* C19: the reference point a description names is at the least distance   *)
(* over the whole reference table, the miles it gives are those of that    *)
(* distance, and of several points at the least distance it names the one  *)
(* declared first.                                                         *)
C19_GlobalNearest ==
    Positioned =>
        LET d == MinRefDistance
            name == FirstNearestRef
        IN  /\ StartsWith(location_desc, "near ") => location_desc = "near " \o name
            /\ HasSubstring(location_desc, " mi from ") =>
                  EndsWith(location_desc, "~" \o Str(Miles(d)) \o " mi from " \o name)

\* As far from Al Dhafra as from Abu Dhabi, which is declared later.
C19_Witness ==
    /\ Positioned
    /\ Cardinality({k \in DOMAIN REFERENCE_POINTS :
                       RefDistances[k] = MinRefDistance}) = 2
    /\ location_desc = "near Al Dhafra AB, UAE"

----------------------------------------------------------------------------
(* C20: identify_airframe called with a callsign that is None or empty,    *)
(* and _resolve_icao_type called with a type code that is None or empty,   *)
(* return None and do not raise.                                           *)
C20_NullClassification ==
    /\ callsign \in {None, Some("")} =>
          /\ pc # "identify_airframe: raise"
          /\ pc = "identify_airframe: return" => airframe = None
    /\ type_code \in {None, Some("")} =>
          /\ pc # "_resolve_icao_type: raise"
          /\ pc = "_resolve_icao_type: return" => airframe = None

----------------------------------------------------------------------------
(* C21: identify_airframe returns the (airframe, role) entry of the first  *)
(* prefix, in the order of the table, that the callsign starts with,       *)
(* letter case aside, and None when it starts with none; it never returns  *)
(* at a prefix that starts with a prefix declared earlier (HERKY after     *)
(* HERK); "RCH4521" in either letter case is a C-17.                       *)
C21_FirstPrefix ==
    pc = "identify_airframe: return" =>
        LET cs == Upper(Val(callsign))
            starting == {i \in DOMAIN CALLSIGN_AIRFRAMES :
                            StartsWith(cs, CALLSIGN_AIRFRAMES[i][1])}
        IN  /\ starting = {} => (airframe = None /\ key = None)
            /\ starting # {} =>
                  \E i \in starting :
                      /\ \A j \in starting : i <= j
                      /\ key = Some(CALLSIGN_AIRFRAMES[i][1])
                      /\ airframe = <<CALLSIGN_AIRFRAMES[i][2], CALLSIGN_AIRFRAMES[i][3]>>
            /\ \A i, j \in DOMAIN CALLSIGN_AIRFRAMES :
                  (j < i /\ StartsWith(CALLSIGN_AIRFRAMES[i][1], CALLSIGN_AIRFRAMES[j][1]))
                      => key # Some(CALLSIGN_AIRFRAMES[i][1])
            /\ callsign \in {Some("RCH4521"), Some("rch4521")} =>
                  (airframe # None /\ StartsWith(airframe[1], "C-17"))

\* A callsign that starts with HERK and with HERKY has returned at HERK.
C21_Witness ==
    /\ pc = "identify_airframe: return"
    /\ callsign = Some("HERKY11")
    /\ key = Some("HERK")
    /\ airframe = <<"C-130J Super Hercules", "Tactical airlift">>

----------------------------------------------------------------------------
\* _resolve_icao_type has returned for a type code that is not empty.
Resolved ==
    /\ pc = "_resolve_icao_type: return"
    /\ type_code # None
    /\ type_code # Some("")

\* The entries under exactly the normalised code.
ExactEntries ==
    {i \in DOMAIN ICAO_TYPE_MAP : ICAO_TYPE_MAP[i][1] = Normalized(type_code)}

\* The result is the first of a set of entries, None for the empty set.
ReturnsFirstOf(entries) ==
    IF entries = {} THEN airframe = None /\ key = None
    ELSE \E i \in entries :
            /\ \A j \in entries : i <= j
            /\ key = Some(ICAO_TYPE_MAP[i][1])
            /\ airframe = <<ICAO_TYPE_MAP[i][2], ICAO_TYPE_MAP[i][3]>>

(* C22, as claimed: the result is the entry under exactly the normalised   *)
(* code (upper case, hyphens removed) when there is one; otherwise the     *)
(* first entry, in the order of the table, whose key is contained in the   *)
(* normalised code or contains it; None when there is neither.             *)
C22_SubstringFallback ==
    Resolved =>
        LET tc == Normalized(type_code)
        IN  IF ExactEntries # {} THEN ReturnsFirstOf(ExactEntries)
            ELSE ReturnsFirstOf({i \in DOMAIN ICAO_TYPE_MAP :
                                    \/ HasSubstring(tc, ICAO_TYPE_MAP[i][1])
                                    \/ HasSubstring(ICAO_TYPE_MAP[i][1], tc)})

(* C22, amended: the result is the entry under exactly the normalised code *)
(* when there is one; otherwise the first entry, in the order of the       *)
(* table, whose key the normalised code starts with or whose key starts    *)
(* with the normalised code; None when there is neither.  "C-17" and       *)
(* "f-18" are normalised to "C17" and "F18".                               *)
C22_PrefixFallback ==
    Resolved =>
        LET tc == Normalized(type_code)
        IN  /\ IF ExactEntries # {} THEN ReturnsFirstOf(ExactEntries)
               ELSE ReturnsFirstOf({i \in DOMAIN ICAO_TYPE_MAP :
                                       \/ StartsWith(tc, ICAO_TYPE_MAP[i][1])
                                       \/ StartsWith(ICAO_TYPE_MAP[i][1], tc)})
            /\ type_code = Some("C-17") => key = Some("C17")
            /\ type_code = Some("f-18") => key = Some("F18")

\* F18S has an entry of its own, declared after F18, which it starts with.
C22_Witness ==
    /\ Resolved
    /\ type_code = Some("F18S")
    /\ key = Some("F18S")
    /\ airframe = <<"F/A-18E/F Super Hornet", "Carrier multirole fighter">>

----------------------------------------------------------------------------
(* C23: in a cycle whose load found no history.json the market loop does   *)
(* not raise, every aircraft of the cycle is tagged "new" and counted as   *)
(* new, and every market is given the delta None and the volume ratio      *)
(* None.                                                                   *)
C23_FirstRun ==
    (pc # "idle" /\ hist_status = "missing") =>
        /\ pc # "aborted"
        /\ Tagged =>
              /\ \A i \in DOMAIN opensky.mil_aircraft :
                    opensky.mil_aircraft[i].status = "new"
              /\ new_count = Len(opensky.mil_aircraft)
        /\ Annotated =>
              /\ \A i \in DOMAIN polymarket.markets :
                    /\ polymarket.markets[i].prob_delta = None
                    /\ polymarket.markets[i].vol_ratio = None
              /\ market_alerts = <<>>

\* A first cycle with two aircraft and a market has run to its end.
C23_Witness ==
    /\ pc = "done"
    /\ hist_status = "missing"
    /\ Len(opensky.mil_aircraft) = 2
    /\ new_count = 2
    /\ Len(polymarket.markets) = 1
    /\ polymarket.markets[1].prob_delta = None

----------------------------------------------------------------------------
\* The complete records history.json holds.
CompleteRecords == {i \in DOMAIN history_file.docs : history_file.docs[i].complete}

\* The aircraft of the cycle whose callsign lay in the snapshot before the
\* previous one and not in the previous one.
SeenBeforeLast ==
    {i \in DOMAIN opensky.mil_aircraft :
        opensky.mil_aircraft[i].callsign \in prior_saved.before \ prior_saved.callsigns}

(* C24: history.json holds at most one complete record; a record as the    *)
(* program wrote it is the snapshot of the latest cycle whose save         *)
(* completed; and an aircraft whose callsign was in the snapshot before    *)
(* the previous one but is not in the previous one is tagged "new".        *)
C24_SingleSnapshot ==
    /\ Cardinality(CompleteRecords) <= 1
    /\ Intact(history_file) =>
          /\ last_saved.has
          /\ history_file.docs =
                <<Doc(last_saved.timestamp, last_saved.callsigns, last_saved.markets)>>
    /\ (Tagged /\ hist_status = "ok") =>
          \A i \in SeenBeforeLast : opensky.mil_aircraft[i].status = "new"

\* RCH4521 was saved two cycles ago, only ETHYL21 one cycle ago, and both
\* are seen now.
C24_Witness ==
    /\ Tagged
    /\ hist_status = "ok"
    /\ prior_saved.before = {"RCH4521"}
    /\ prior_saved.callsigns = {"ETHYL21"}
    /\ current_callsigns = {"RCH4521", "ETHYL21"}
    /\ NewIdentifiers = {"RCH4521"}
    /\ ReturningIdentifiers = {"ETHYL21"}

----------------------------------------------------------------------------
(* C25: a feed with status "error" carries no aircraft; the snapshot a     *)
(* cycle with such a feed saves has the empty callsign set, and so has the *)
(* record it leaves in history.json; in the cycle that loads this record   *)
(* every aircraft is tagged "new", those of the snapshot before it         *)
(* included.                                                               *)
C25_OutageResets ==
    /\ opensky.status = "error" => opensky.mil_aircraft = <<>>
    /\ last_saved.status = "error" =>
          /\ last_saved.callsigns = {}
          /\ Intact(history_file) => history_file.docs[1].callsigns = {}
    /\ (Tagged /\ hist_status = "ok" /\ prior_saved.status = "error") =>
          /\ \A i \in DOMAIN opensky.mil_aircraft :
                opensky.mil_aircraft[i].status = "new"
          /\ new_count = Len(opensky.mil_aircraft)

\* RCH4521 was saved, the next cycle saved under a failed feed, and RCH4521
\* is seen again.
C25_Witness ==
    /\ Tagged
    /\ hist_status = "ok"
    /\ prior_saved.status = "error"
    /\ prior_saved.before = {"RCH4521"}
    /\ prev_callsigns = {}
    /\ NewIdentifiers = {"RCH4521"}

----------------------------------------------------------------------------
(* C26: once the aircraft are tagged every aircraft of the list carries    *)
(* one of the statuses "new" and "returning"; two aircraft with the same   *)
(* callsign, the empty callsign included, carry the same status; and when  *)
(* the previous set holds the empty callsign every aircraft with the empty *)
(* callsign is tagged "returning".                                         *)
C26_StatusByCallsign ==
    Tagged =>
        LET list == opensky.mil_aircraft
        IN  /\ \A i \in DOMAIN list : list[i].status \in {"new", "returning"}
            /\ \A i, j \in DOMAIN list :
                  list[i].callsign = list[j].callsign => list[i].status = list[j].status
            /\ "" \in prev_callsigns =>
                  \A i \in DOMAIN list :
                      list[i].callsign = "" => list[i].status = "returning"

\* Two aircraft without a callsign, after a cycle that saved the empty
\* callsign.
C26_Witness ==
    /\ Tagged
    /\ prev_callsigns = {""}
    /\ Len(opensky.mil_aircraft) = 2
    /\ \A i \in DOMAIN opensky.mil_aircraft :
          /\ opensky.mil_aircraft[i].callsign = ""
          /\ opensky.mil_aircraft[i].status = "returning"

----------------------------------------------------------------------------
\* The probability alerts recorded for a question, by position.
ProbAlerts(q) ==
    {k \in DOMAIN market_alerts :
        market_alerts[k].question = q /\ market_alerts[k].kind = "probability"}

(* C27: once step 1c is through, a market has a probability alert exactly  *)
(* when the previous snapshot holds an entry for its question and the      *)
(* current probability differs from the stored one by 5 points or more; a  *)
(* market without a stored entry has none; the alert says "UP" exactly     *)
(* when the probability rose.                                              *)
C27_ProbabilityAlert ==
    Annotated =>
        \A i \in DOMAIN polymarket.markets :
            LET m == polymarket.markets[i]
                stored == /\ m.question \in DOMAIN prev_markets
                          /\ prev_markets[m.question].probability.kind = "int"
                change == m.probability - prev_markets[m.question].probability.v
            IN  /\ ProbAlerts(m.question) # {} <=> (stored /\ Abs(change) >= 5)
                /\ m.question \notin DOMAIN prev_markets => ProbAlerts(m.question) = {}
                /\ Cardinality(ProbAlerts(m.question)) <= 1
                /\ \A k \in ProbAlerts(m.question) :
                      market_alerts[k].direction = "UP" <=> change > 0

\* One market has moved from 40 to 45 and is reported "UP", one from 55 to
\* 45 and is reported "DOWN".
C27_Witness ==
    /\ Annotated
    /\ \E i, j \in DOMAIN polymarket.markets :
          LET a == polymarket.markets[i]
              b == polymarket.markets[j]
          IN  /\ a.question \in DOMAIN prev_markets
              /\ prev_markets[a.question].probability = JsonInt(40)
              /\ a.probability = 45
              /\ \E k \in ProbAlerts(a.question) : market_alerts[k].direction = "UP"
              /\ b.question \in DOMAIN prev_markets
              /\ prev_markets[b.question].probability = JsonInt(55)
              /\ b.probability = 45
              /\ \E k \in ProbAlerts(b.question) : market_alerts[k].direction = "DOWN"

----------------------------------------------------------------------------
(* C28: in the record of an enriched aircraft a classification by the type *)
(* code is the one recorded; identify_airframe is called only when the     *)
(* type code is empty or resolves to nothing; when neither lookup gives a  *)
(* classification the airframe is the type code as received, or "Unknown   *)
(* type" for an empty one, and the role is "Military".                     *)
C28_TypeFirst ==
    pc = "fetch_opensky: enriched" =>
        LET by_type == resolve_icao_type(type_code)
            by_callsign == identify_airframe(Some(FlightCallsign(callsign)))
        IN  /\ by_type # None =>
                  (airframe = by_type /\ "identify_airframe" \notin consulted)
            /\ "identify_airframe" \in consulted =>
                  (type_code \in {None, Some("")} \/ by_type = None)
            /\ (by_type = None /\ by_callsign # None) => airframe = by_callsign
            /\ (by_type = None /\ by_callsign = None) =>
                  /\ type_code \in {None, Some("")} =>
                        airframe = <<"Unknown type", "Military">>
                  /\ type_code \notin {None, Some("")} =>
                        airframe = <<Val(type_code), "Military">>

\* A tanker callsign on an aircraft whose type code says C-17.
C28_Witness ==
    /\ pc = "fetch_opensky: enriched"
    /\ callsign = Some("ETHYL21")
    /\ type_code = Some("C17")
    /\ consulted = {"_resolve_icao_type"}
    /\ airframe = <<"C-17A Globemaster III", "Strategic airlift">>

----------------------------------------------------------------------------
(* C29: a position at least 40 nm from every reference point that lies in  *)
(* a water box and in a country box is at the clamped-point distance 0     *)
(* from that country box and is described as "over {water}" and nothing    *)
(* more; a description with "mi off {country}" is given only to positions  *)
(* that no country box contains.                                           *)
C29_NoSuffixInsideCountry ==
    Positioned =>
        /\ (MinRefDistance >= 4000 /\ InWater /\ InCountry) =>
              /\ \A k \in BoxesAround(COUNTRY_BOXES) : ClampedDistances[k] = 0
              /\ \E w \in BoxesAround(WATER_BODIES) :
                    location_desc = "over " \o WATER_BODIES[w][5]
        /\ HasSubstring(location_desc, " mi off ") => ~InCountry

\* In a water box and in a country box, more than 5 nm from the middle of
\* that country box, and described by the water alone.
C29_Witness ==
    /\ Positioned
    /\ MinRefDistance >= 4000
    /\ InWater
    /\ BoxesAround(COUNTRY_BOXES) # {}
    /\ ClampedDistanceToCentre(COUNTRY_BOXES[FirstAt(ClampedDistances, 0)], Val(lat), Val(lon)) > 500
    /\ ~HasSubstring(location_desc, ",")
    /\ StartsWith(location_desc, "over the ")

----------------------------------------------------------------------------
(* C30: when the open of history.json or the dump into it raises, main     *)
(* goes on to the analysis with the tags of the aircraft, the count of new *)
(* ones, the annotated markets and the market alerts of this cycle as they *)
(* were, and the analysis and the report then run with them unchanged.     *)
CycleResults == <<opensky, polymarket, current_callsigns, new_count, market_alerts>>

OpenRaises == pc = "save" /\ pc' \notin {"save", "dump", "idle"}

DumpRaises ==
    /\ pc = "dump"
    /\ pc' \notin {"dump", "idle"}
    /\ history_file' = Dump(history_file, PartialDoc)

C30_SaveErrorCaught ==
    [][/\ (OpenRaises \/ DumpRaises) =>
             (pc' = "analysis" /\ CycleResults' = CycleResults)
       /\ (pc = "analysis" /\ pc' \notin {"analysis", "idle"}) =>
             (pc' = "done" /\ CycleResults' = CycleResults)]_vars

\* The report is written in a cycle that loaded a record, tagged a new
\* aircraft, raised a market alert and left history.json cut short.
C30_Witness ==
    /\ pc = "done"
    /\ history_file.docs = <<PartialDoc>>
    /\ new_count > 0
    /\ market_alerts # <<>>
    /\ \E i \in DOMAIN opensky.mil_aircraft : opensky.mil_aircraft[i].status = "new"

====
